---- MODULE Spec2Model ----
(***************************************************************************)
(* The fixed-block memory pool of src/main.c: pool_init, pool_alloc,       *)
(* pool_free and pool_destroy over the allocation table allocation_sizes   *)
(* and the counter free_blocks, and the calls of main.  Addresses are byte *)
(* offsets from pool->memory; size_t and ssize_t keep a width of SizeBits  *)
(* bits, and of DemoBits bits where main runs.                             *)
(***************************************************************************)
EXTENDS Integers, FiniteSets, Sequences, TLC

\* Width of size_t / ssize_t in bits (scaled down from 32 or 64).
SizeBits == 4
\* Width of size_t / ssize_t of the build that runs main.
DemoBits == 16
\* Largest block_size and num_blocks a pool is created with.
MaxBlockSize == 9
MaxBlocks == 4
\* Largest memory region, in bytes, a caller hands to pool_init.
MaxRegion == 15
\* The call counter saturates here.
CallCap == 3
\* Largest num_blocks of the pools whose caller is recorded.
LiveMaxBlocks == 2

VARIABLES
  size_bits,         \* the build: width of size_t and ssize_t in bits
  block_size,        \* pool->block_size
  num_blocks,        \* pool->num_blocks
  free_blocks,       \* pool->free_blocks
  allocation_sizes,  \* pool->allocation_sizes, indices 0 .. num_blocks-1
  last,              \* history: the last call, its result and the pool before it
  ncalls,            \* history: calls since pool_init, saturating at CallCap
  repeated,          \* history: the last call repeats the call before it
  prevReleased,      \* history: blocks released by the call before the last
  freesPrevRet,      \* history: the last call frees what the call before returned
  track,             \* caller: what it records, "off", "addresses" or "sizes"
  live,              \* caller: allocations returned by pool_alloc, not freed since
  stale,             \* caller: addresses it got from pool_alloc and has freed
  pool,              \* caller: its handle, "valid" or "null"
  heap,              \* which of the control structure, the table and the
                     \* caller's memory region are allocated ("held") or "free"
  heapFault,         \* free() of something not allocated, or a store past
                     \* the end of a malloced block, has happened
  written            \* the objects the pool's functions have stored into

vars == <<size_bits, block_size, num_blocks, free_blocks, allocation_sizes,
          last, ncalls, repeated, prevReleased, freesPrevRet, track, live,
          stale, pool, heap, heapFault, written>>

\* size_t and ssize_t are size_bits wide.
SIZE_MAX == 2^size_bits - 1
SSIZE_MAX == 2^(size_bits - 1) - 1

\* The null pointer: no offset from pool->memory is negative.
NULL == -1

\* Arithmetic in size_t wraps modulo 2^size_bits.
SizeT(x) == x % (2^size_bits)

\* Conversion to ssize_t (two's complement).
SsizeT(x) ==
  LET m == x % (2^size_bits)
  IN  IF m > SSIZE_MAX THEN m - 2^size_bits ELSE m

Min(a, b) == IF a < b THEN a ELSE b

----------------------------------------------------------------------------
\* pool_init

\* sizeof(ssize_t) of line 38, in the units of the SizeBits-wide size_t.
SizeofSsize == 3

\* Line 38: the size pool_init asks malloc for, computed in size_t, and the
\* number of table entries a block of that size holds.
TableBytes(nb) == SizeT(nb * SizeofSsize)

TableEntries(nb) == TableBytes(nb) \div SizeofSsize

\* The pools pool_init accepts: block_size > 0, num_blocks > 0, a memory
\* region of block_size * num_blocks bytes that exists (its size is a size_t),
\* and a table of num_blocks ssize_t entries that malloc can return.
Configs ==
  { c \in (1..MaxBlockSize) \X (1..MaxBlocks) :
      /\ ~(c[1] = 0 \/ c[2] = 0)
      /\ c[1] * c[2] <= SIZE_MAX
      /\ c[1] * c[2] <= MaxRegion
      /\ c[2] <= SSIZE_MAX
      /\ TableEntries(c[2]) = c[2] }

\* The zero-filled table of lines 44-46.
ZeroTable(nb) == [i \in 0..(nb - 1) |-> 0]

\* Lines 32-48: the pool a successful pool_init(memory, c[1], c[2]) returns.
PoolCreated(c) ==
  /\ block_size = c[1]
  /\ num_blocks = c[2]
  /\ free_blocks = c[2]
  /\ allocation_sizes = ZeroTable(c[2])
  /\ last = [op |-> "init", arg |-> 0, ret |-> NULL,
             table |-> ZeroTable(c[2]), free |-> c[2]]
  /\ ncalls = 0
  /\ repeated = FALSE
  /\ prevReleased = 0
  /\ freesPrevRet = FALSE
  /\ live = {}
  /\ stale = {}
  /\ pool = "valid"
  /\ heap = [ctl |-> "held", table |-> "held", memory |-> "held"]
  /\ heapFault = FALSE
  /\ written = {"ctl", "table"}

Init ==
  /\ size_bits = SizeBits
  /\ track = "off"
  /\ \E c \in Configs : PoolCreated(c)

----------------------------------------------------------------------------
\* pool_alloc

\* Result of the search when no position fits.
NoFit == -1

\* Line 57: the quick capacity check passes.
CapacityOk(size, bs, fb) == ~(size > SizeT(bs * fb))

\* Line 62: blocks needed, rounding up, in size_t.
NumBlocksNeeded(size, bs) == SizeT(SizeT(size + bs) - 1) \div bs

\* Variant: only the first block of the run is checked.
CanAllocateHeadOnly(t, i, need) == need = 0 \/ t[i] = 0

\* Variant: enough free blocks from i on are counted, contiguous or not.
CanAllocateCounting(t, i, need) ==
  /\ need = 0 \/ t[i] = 0
  /\ Cardinality({x \in DOMAIN t : x >= i /\ t[x] = 0}) >= need

\* Lines 71-77: blocks i .. i+need-1 are all free.
CanAllocate(t, i, need) == \A j \in 0..(need - 1) : t[i + j] = 0

\* Lines 65-94: the first index the scan accepts, or NoFit.  The scan visits
\* i, i+1, ... while i + need <= num_blocks and returns at the first index
\* whose head entry is 0 and whose run is free.  beyond is the value a read
\* of allocation_sizes[num_blocks], one past the table, yields.
FindFit(t, nb, need, i, beyond) ==
  LET stops == {k \in i..(nb + 1) : ~(SizeT(k + need) <= nb)}
      stop == CHOOSE k \in stops : \A m \in stops : k <= m
      head(k) == IF k < nb THEN t[k] ELSE beyond
      accepted == {k \in i..(stop - 1) : head(k) = 0 /\ CanAllocate(t, k, need)}
  IN  IF accepted = {} THEN NoFit
      ELSE CHOOSE k \in accepted : \A m \in accepted : k <= m

\* Lines 82-86: the head takes the count, the continuation blocks take -1.
MarkBlocks(t, i, need) ==
  [x \in DOMAIN t |->
     IF x = i THEN SsizeT(need)
     ELSE IF x > i /\ x < i + need THEN -1
     ELSE t[x]]

\* Variant: free_blocks drops by one per allocation, whatever its size.
FreeAfterAllocOne(fb, need) == SizeT(fb - 1)

\* Line 89.
FreeAfterAlloc(fb, need) == SizeT(fb - need)

\* Line 92: the returned address, as an offset from pool->memory.
BlockOffset(i, bs) == SizeT(i * bs)

\* Variant: free_blocks is decremented before the search, also when it fails.
PoolAllocCountsFirst(t, fb, bs, nb, size, beyond) ==
  IF size = 0 THEN [ret |-> NULL, table |-> t, free |-> fb]
  ELSE IF ~CapacityOk(size, bs, fb) THEN [ret |-> NULL, table |-> t, free |-> fb]
  ELSE LET need == NumBlocksNeeded(size, bs)
           i == FindFit(t, nb, need, 0, beyond)
       IN  IF i = NoFit
           THEN [ret |-> NULL, table |-> t, free |-> FreeAfterAlloc(fb, need)]
           ELSE [ret |-> BlockOffset(i, bs),
                 table |-> MarkBlocks(t, i, need),
                 free |-> FreeAfterAlloc(fb, need)]

\* pool_alloc(pool, size) on a pool with table t and free count fb.
PoolAlloc(t, fb, bs, nb, size, beyond) ==
  IF size = 0 THEN [ret |-> NULL, table |-> t, free |-> fb]
  ELSE IF ~CapacityOk(size, bs, fb) THEN [ret |-> NULL, table |-> t, free |-> fb]
  ELSE LET need == NumBlocksNeeded(size, bs)
           i == FindFit(t, nb, need, 0, beyond)
       IN  IF i = NoFit THEN [ret |-> NULL, table |-> t, free |-> fb]
           ELSE [ret |-> BlockOffset(i, bs),
                 table |-> MarkBlocks(t, i, need),
                 free |-> FreeAfterAlloc(fb, need)]

\* The sizes a caller passes: every size up to one past the capacity, and
\* the largest size_t.
Sizes == (0..Min(block_size * num_blocks + 1, SIZE_MAX)) \cup {SIZE_MAX}

Bump(n) == Min(n + 1, CallCap)

\* Blocks released by the last call.
Released == IF free_blocks > last.free THEN free_blocks - last.free ELSE 0

\* The scan reads allocation_sizes[num_blocks] only when it looks for a run
\* of 0 blocks and finds no entry equal to 0; what it reads there is any value.
ReadsBeyond(t, fb, bs, size) ==
  /\ size # 0
  /\ CapacityOk(size, bs, fb)
  /\ NumBlocksNeeded(size, bs) = 0
  /\ \A i \in DOMAIN t : t[i] # 0

BeyondValues(t, fb, bs, size) ==
  IF ReadsBeyond(t, fb, bs, size) THEN {0, 1} ELSE {0}

\* A free() of something not allocated, or a store past the end of a malloced
\* block, is undefined behaviour: the model follows the program up to it and
\* says nothing about what the program does after it.
Defined == ~heapFault

\* Lines 82-89: a successful pool_alloc stores into the table and into
\* pool->free_blocks; line 92 only computes an address from pool->memory.
AllocStores == {"table", "ctl"}

\* The caller's record of an allocation: the address returned, the size asked
\* for and the number of blocks free_blocks dropped by.
Allocation(off, size, blocks) == [off |-> off, size |-> size, blocks |-> blocks]

\* The call pool_alloc(pool, size).
AllocCall(size) ==
  /\ Defined
  /\ \E beyond \in IF pool = "null" THEN {0}
                   ELSE BeyondValues(allocation_sizes, free_blocks,
                                     block_size, size) :
       LET r == IF pool = "null"
                THEN [ret |-> NULL, table |-> allocation_sizes, free |-> free_blocks]
                ELSE PoolAlloc(allocation_sizes, free_blocks, block_size,
                               num_blocks, size, beyond)
       IN  /\ allocation_sizes' = r.table
           /\ free_blocks' = r.free
           /\ last' = [op |-> "alloc", arg |-> size, ret |-> r.ret,
                       table |-> allocation_sizes, free |-> free_blocks]
           /\ ncalls' = Bump(ncalls)
           /\ repeated' = (last.op = "alloc" /\ last.arg = size)
           /\ prevReleased' = Released
           /\ freesPrevRet' = FALSE
           /\ live' = IF r.ret = NULL \/ track = "off" THEN live
                      ELSE live \cup {Allocation(r.ret,
                                                 IF track = "sizes" THEN size ELSE 0,
                                                 free_blocks - r.free)}
           /\ stale' = stale
           /\ written' = IF r.ret = NULL THEN written ELSE written \cup AllocStores
           /\ UNCHANGED <<size_bits, block_size, num_blocks, track, pool, heap,
                         heapFault>>

pool_alloc == \E size \in Sizes : AllocCall(size)

----------------------------------------------------------------------------
\* pool_free

\* Variant: the alignment check is missing.
AlignedAlways(offset, bs) == TRUE

\* Line 108: the offset is a multiple of block_size.
Aligned(offset, bs) == offset % bs = 0

\* Line 112.
BlockIndex(offset, bs) == offset \div bs

\* Line 113: the index is inside the table.
InRange(idx, nb) == ~(idx >= nb)

\* Variants: a continuation block passes; a head of one block does not.
IsHeadOrTail(n) == n # 0

IsHeadMulti(n) == n > 1

\* Line 119: the entry is the head of an allocation.
IsHead(n) == ~(n <= 0)

\* Variant: off by one, a run ending at the last block is rejected.
RunInBoundsStrict(idx, n, nb) == ~(SizeT(idx + n) >= nb)

\* Line 126: the recorded run ends inside the table.
RunInBounds(idx, n, nb) == ~(SizeT(idx + n) > nb)

\* Variants: only the head is zeroed; the head is left; one block too many.
ClearHeadOnly(t, idx, n) ==
  [x \in DOMAIN t |-> IF x = idx THEN 0 ELSE t[x]]

ClearTailOnly(t, idx, n) ==
  [x \in DOMAIN t |-> IF x > idx /\ x < idx + n THEN 0 ELSE t[x]]

ClearOneMore(t, idx, n) ==
  [x \in DOMAIN t |-> IF x >= idx /\ x <= idx + n THEN 0 ELSE t[x]]

\* Variant: everything from the head to the end of the table is zeroed.
ClearToEnd(t, idx, n) ==
  [x \in DOMAIN t |-> IF x >= idx THEN 0 ELSE t[x]]

\* Lines 130-133.
ClearBlocks(t, idx, n) ==
  [x \in DOMAIN t |-> IF x >= idx /\ x < idx + n THEN 0 ELSE t[x]]

\* Variant: the count grows by one block whatever the run length.
FreeAfterFreeOne(fb, n) == SizeT(fb + 1)

\* Line 136.
FreeAfterFree(fb, n) == SizeT(fb + n)

\* pool_free(pool, ptr) on a pool with table t and free count fb; ptr is NULL
\* or the offset (char *)ptr - (char *)pool->memory of line 107.
PoolFree(t, fb, bs, nb, ptr) ==
  IF ptr = NULL THEN [table |-> t, free |-> fb]
  ELSE IF ~Aligned(ptr, bs) THEN [table |-> t, free |-> fb]
  ELSE LET idx == BlockIndex(ptr, bs)
       IN  IF ~InRange(idx, nb) THEN [table |-> t, free |-> fb]
           ELSE IF ~IsHead(t[idx]) THEN [table |-> t, free |-> fb]
           ELSE IF ~RunInBounds(idx, t[idx], nb) THEN [table |-> t, free |-> fb]
           ELSE [table |-> ClearBlocks(t, idx, t[idx]),
                 free |-> FreeAfterFree(fb, t[idx])]

\* Lines 132 and 136: an accepted pool_free stores into the table and into
\* pool->free_blocks; line 107 only subtracts pool->memory.
FreeStores == {"table", "ctl"}

\* The addresses a caller passes: NULL, every offset up to one past the
\* region, and the largest offset (an address below pool->memory wraps).
Ptrs == {NULL} \cup (0..Min(block_size * num_blocks + 1, SIZE_MAX)) \cup {SIZE_MAX}

\* The call pool_free(pool, ptr).
FreeCall(ptr) ==
  /\ Defined
  /\ LET r == IF pool = "null"
             THEN [table |-> allocation_sizes, free |-> free_blocks]
             ELSE PoolFree(allocation_sizes, free_blocks, block_size,
                           num_blocks, ptr)
    IN  /\ allocation_sizes' = r.table
        /\ free_blocks' = r.free
        /\ last' = [op |-> "free", arg |-> ptr, ret |-> NULL,
                    table |-> allocation_sizes, free |-> free_blocks]
        /\ ncalls' = Bump(ncalls)
        /\ repeated' = (last.op = "free" /\ last.arg = ptr)
        /\ prevReleased' = Released
        /\ freesPrevRet' = (last.op = "alloc" /\ last.ret = ptr)
        /\ live' = {a \in live : a.off # ptr}
        /\ stale' = IF track = "addresses" /\ (\E a \in live : a.off = ptr)
                    THEN stale \cup {ptr} ELSE stale
        /\ written' = IF r.free = free_blocks THEN written
                      ELSE written \cup FreeStores
        /\ UNCHANGED <<size_bits, block_size, num_blocks, track, pool, heap,
                      heapFault>>

pool_free == \E ptr \in Ptrs : FreeCall(ptr)

----------------------------------------------------------------------------

Next == pool_alloc \/ pool_free

Spec == Init /\ [][Next]_vars

\* The same pool with the caller recording the addresses it holds and the
\* addresses it has freed (SpecStale), or the addresses it holds with the sizes
\* it asked for (SpecLive), on the pools of at most LiveMaxBlocks blocks.
LiveConfigs == {c \in Configs : c[2] <= LiveMaxBlocks}

InitStale ==
  /\ size_bits = SizeBits
  /\ track = "addresses"
  /\ \E c \in LiveConfigs : PoolCreated(c)

InitLive ==
  /\ size_bits = SizeBits
  /\ track = "sizes"
  /\ \E c \in LiveConfigs : PoolCreated(c)

SpecStale == InitStale /\ [][Next]_vars

SpecLive == InitLive /\ [][Next]_vars

----------------------------------------------------------------------------
\* pool_init and pool_destroy, with malloc and free.

\* malloc(x) for each x of ms, then free(x) for each x of the sequence fs.
RECURSIVE HeapFreed(_, _)
HeapFreed(h, fs) ==
  IF fs = <<>> THEN h
  ELSE HeapFreed([h EXCEPT ![Head(fs)] = "free"], Tail(fs))

RECURSIVE FreesFault(_, _)
FreesFault(h, fs) ==
  IF fs = <<>> THEN FALSE
  ELSE h[Head(fs)] # "held"
       \/ FreesFault([h EXCEPT ![Head(fs)] = "free"], Tail(fs))

HeapMalloced(h, ms) == [x \in DOMAIN h |-> IF x \in ms THEN "held" ELSE h[x]]

\* Lines 20-49: whether pool_init(memory, bs, nb) returns a pool, what it
\* mallocs, what it frees and how many entries the table it malloced holds;
\* mem is "memory is not NULL", ctlOk and tableOk are the outcomes of the
\* mallocs of lines 27 and 38.
PoolInit(mem, bs, nb, ctlOk, tableOk) ==
  IF ~mem \/ bs = 0 \/ nb = 0
  THEN [ok |-> FALSE, mallocs |-> {}, frees |-> <<>>, entries |-> 0]
  ELSE IF ~ctlOk
  THEN [ok |-> FALSE, mallocs |-> {}, frees |-> <<>>, entries |-> 0]
  ELSE IF ~tableOk
  THEN [ok |-> FALSE, mallocs |-> {"ctl"}, frees |-> <<"ctl">>, entries |-> 0]
  ELSE [ok |-> TRUE, mallocs |-> {"ctl", "table"}, frees |-> <<>>,
        entries |-> TableEntries(nb)]

\* Lines 32-35 store into the control structure, lines 44-46 into the table.
InitStores(ctlOk, tableOk) ==
  (IF ctlOk THEN {"ctl"} ELSE {}) \cup (IF ctlOk /\ tableOk THEN {"table"} ELSE {})

\* Lines 44-46 store num_blocks entries. When the table holds fewer, the
\* stores past its end land in whatever follows it in the address space:
\* the caller's memory region, or something else.
OverrunTargets(nb, entries) ==
  IF entries < nb THEN {{}, {"memory"}} ELSE {{}}

\* The arguments a caller passes to pool_init: the pools of Configs, a block
\* size or a block count of 0, and the pools whose table size wraps on
\* line 38.
InitArgs ==
  { c \in (0..MaxBlockSize) \X (0..SSIZE_MAX) :
      /\ c[1] * c[2] <= SIZE_MAX
      /\ c[1] * c[2] <= MaxRegion
      /\ \/ c \in Configs
         \/ c[1] = 0
         \/ c[2] = 0
         \/ TableEntries(c[2]) < c[2] }

\* The call pool_init(memory, c[1], c[2]) of a caller that holds no pool.
InitCall(mem, c, ctlOk, tableOk) ==
  /\ Defined
  /\ pool = "null"
  /\ LET r == PoolInit(mem, c[1], c[2], ctlOk, tableOk)
         valid == mem /\ c[1] # 0 /\ c[2] # 0
    IN  \E hit \in OverrunTargets(IF r.ok THEN c[2] ELSE 0, r.entries) :
        /\ pool' = IF r.ok THEN "valid" ELSE "null"
        /\ heap' = HeapFreed(HeapMalloced(heap, r.mallocs), r.frees)
        /\ heapFault' = \/ heapFault
                        \/ FreesFault(HeapMalloced(heap, r.mallocs), r.frees)
                        \/ (r.ok /\ r.entries < c[2])
        /\ written' = IF valid
                      THEN written \cup InitStores(ctlOk, tableOk) \cup hit
                      ELSE written
        /\ block_size' = IF r.ok THEN c[1] ELSE 0
        /\ num_blocks' = IF r.ok THEN c[2] ELSE 0
        /\ free_blocks' = IF r.ok THEN c[2] ELSE 0
        /\ allocation_sizes' = ZeroTable(Min(r.entries, c[2]))
        /\ last' = [op |-> "init",
                    arg |-> [memory |-> mem, bs |-> c[1], nb |-> c[2],
                             ctlOk |-> ctlOk, tableOk |-> tableOk],
                    ret |-> IF r.ok THEN 0 ELSE NULL,
                    table |-> allocation_sizes, free |-> free_blocks]
        /\ ncalls' = 0
        /\ repeated' = FALSE
        /\ prevReleased' = 0
        /\ freesPrevRet' = FALSE
        /\ live' = {}
        /\ stale' = {}
        /\ UNCHANGED <<size_bits, track>>

pool_init ==
  \E mem \in BOOLEAN, c \in InitArgs, ctlOk \in BOOLEAN, tableOk \in BOOLEAN :
    InitCall(mem, c, ctlOk, tableOk)

\* Lines 140-150: what pool_destroy(pool) passes to free, in order.
DestroyFrees(p) ==
  IF p = "null" THEN <<>> ELSE <<"table", "ctl">>

pool_destroy ==
  /\ Defined
  /\ heap' = HeapFreed(heap, DestroyFrees(pool))
  /\ heapFault' = (heapFault \/ FreesFault(heap, DestroyFrees(pool)))
  /\ pool' = "null"
  /\ block_size' = 0
  /\ num_blocks' = 0
  /\ free_blocks' = 0
  /\ allocation_sizes' = ZeroTable(0)
  /\ last' = [op |-> "destroy", arg |-> pool, ret |-> NULL,
              table |-> allocation_sizes, free |-> free_blocks]
  /\ ncalls' = Bump(ncalls)
  /\ repeated' = (last.op = "destroy")
  /\ prevReleased' = Released
  /\ freesPrevRet' = FALSE
  /\ live' = {}
  /\ stale' = {}
  /\ UNCHANGED <<size_bits, track, written>>

\* Before the first pool_init: no pool, nothing allocated but the caller's
\* memory region.
NoPool ==
  /\ pool = "null"
  /\ heap = [ctl |-> "free", table |-> "free", memory |-> "held"]
  /\ heapFault = FALSE
  /\ written = {}
  /\ block_size = 0
  /\ num_blocks = 0
  /\ free_blocks = 0
  /\ allocation_sizes = ZeroTable(0)
  /\ last = [op |-> "none", arg |-> 0, ret |-> NULL,
             table |-> ZeroTable(0), free |-> 0]
  /\ ncalls = 0
  /\ repeated = FALSE
  /\ prevReleased = 0
  /\ freesPrevRet = FALSE
  /\ live = {}
  /\ stale = {}

InitLife ==
  /\ size_bits = SizeBits
  /\ track = "off"
  /\ NoPool

NextLife == pool_init \/ pool_alloc \/ pool_free \/ pool_destroy

SpecLife == InitLife /\ [][NextLife]_vars

----------------------------------------------------------------------------
\* main: the calls it makes, in any order and any number of times.

\* Line 155 and line 171: sizeof(unsigned char) and the number of blocks.
DemoBlockSize == 1
DemoBlocks == 320
\* Line 161 and line 178: the sizes main asks for.
DemoFirstSize == 64
DemoSecondSize == 96

DemoSizes == {DemoFirstSize, DemoSecondSize}

\* Lines 155 and 171; memory2 of line 170 is NULL when its malloc fails.
main_init ==
  \E mem \in BOOLEAN, ctlOk \in BOOLEAN, tableOk \in BOOLEAN :
    InitCall(mem, <<DemoBlockSize, DemoBlocks>>, ctlOk, tableOk)

\* Lines 161 and 178, reached when pool_init returned a pool.
main_alloc ==
  /\ pool = "valid"
  /\ \E size \in DemoSizes : AllocCall(size)

\* Lines 164 and 181: main frees what the pool_alloc before returned.
main_free ==
  /\ pool = "valid"
  /\ last.op = "alloc"
  /\ FreeCall(last.ret)

\* Lines 166 and 183.
main_destroy ==
  /\ pool = "valid"
  /\ pool_destroy

InitDemo ==
  /\ size_bits = DemoBits
  /\ track = "off"
  /\ NoPool

NextDemo == main_init \/ main_alloc \/ main_free \/ main_destroy

SpecDemo == InitDemo /\ [][NextDemo]_vars

----------------------------------------------------------------------------
\* Vocabulary of the properties, independent of the operators above.

\* ceil(size / bs) over the integers.
CeilDiv(size, bs) == (size + bs - 1) \div bs

Indices == 0..(num_blocks - 1)

ZeroCount(t) == Cardinality({i \in DOMAIN t : t[i] = 0})

AllFree(t) == \A i \in DOMAIN t : t[i] = 0

\* The heads whose run [h, h+N) contains index i.
HeadsOver(t, i) == {h \in DOMAIN t : t[h] > 0 /\ h <= i /\ i < h + t[h]}

WellFormed(t, nb) ==
  /\ \A i \in DOMAIN t : t[i] = 0 \/ t[i] = -1 \/ t[i] > 0
  /\ \A i \in DOMAIN t :
       t[i] > 0 => /\ i + t[i] <= nb
                   /\ \A j \in (i + 1)..(i + t[i] - 1) : t[j] = -1
  /\ \A i \in DOMAIN t : t[i] = -1 => Cardinality(HeadsOver(t, i)) = 1

\* The positions where a run of k free blocks fits in table t.
Fits(t, nb, k) ==
  {i \in 0..nb : i + k <= nb /\ \A j \in i..(i + k - 1) : t[j] = 0}

Least(S) == CHOOSE x \in S : \A y \in S : x <= y

\* Table t with the run [i, i+k) reserved / released.
Reserved(t, i, k) ==
  [x \in DOMAIN t |-> IF x = i THEN k ELSE IF i < x /\ x < i + k THEN -1 ELSE t[x]]

Zeroed(t, i, k) ==
  [x \in DOMAIN t |-> IF i <= x /\ x < i + k THEN 0 ELSE t[x]]

\* ptr is the address of the head of a live allocation of table t.
LiveHead(t, ptr) ==
  /\ ptr # NULL
  /\ ptr % block_size = 0
  /\ ptr \div block_size < num_blocks
  /\ t[ptr \div block_size] > 0

AllocOk == last.op = "alloc" /\ last.ret # NULL
AllocFailed == last.op = "alloc" /\ last.ret = NULL
Unchanged == allocation_sizes = last.table /\ free_blocks = last.free

----------------------------------------------------------------------------
\* C1: in every state reachable from pool_init by pool_alloc and pool_free
\* calls with any sizes and addresses, free_blocks equals the number of
\* table entries that are 0.
FreeBlocksCountsZeros == free_blocks = ZeroCount(allocation_sizes)

\* A state with live and free blocks, reached by a pool_free that released a run.
FreeBlocksCountsZerosWitness ==
  /\ last.op = "free"
  /\ free_blocks > last.free
  /\ 0 < free_blocks /\ free_blocks < num_blocks

\* C2: the table is always well formed: entries are 0, -1 or positive; a head
\* N at i has i+N <= num_blocks and -1 in i+1 .. i+N-1; every -1 lies in the
\* run of exactly one head.
TableWellFormed == WellFormed(allocation_sizes, num_blocks)

\* A two-block run next to a one-block run, after a pool_free.
TableWellFormedWitness ==
  /\ num_blocks >= 3
  /\ \E i \in Indices : allocation_sizes[i] = -1
  /\ \E i \in Indices : allocation_sizes[i] = 1
  /\ ncalls >= 2

\* C3: pool_alloc with size > 0 and k = ceil(size/block_size) succeeds exactly
\* when some run of k free blocks fits, and then returns i * block_size for the
\* smallest such i.
FirstFitComplete ==
  (last.op = "alloc" /\ last.arg > 0) =>
    LET fits == Fits(last.table, num_blocks, CeilDiv(last.arg, block_size))
    IN  /\ (last.ret # NULL) <=> (fits # {})
        /\ (last.ret # NULL) => last.ret = Least(fits) * block_size

\* A successful pool_alloc that skipped an occupied or too short position.
FirstFitCompleteWitness ==
  /\ AllocOk
  /\ last.ret > 0
  /\ last.table[0] = 0

\* A pool_alloc that failed with enough free blocks but no run that fits.
FirstFitNoRunWitness ==
  /\ AllocFailed
  /\ last.arg > 0
  /\ CeilDiv(last.arg, block_size) <= last.free

\* C4: every successful pool_alloc(size) reserves exactly
\* ceil(size/block_size) blocks: the head at the returned index holds that
\* count, the following entries hold -1, free_blocks drops by that count and
\* no other entry changes.
AllocReservesCeil ==
  AllocOk =>
    LET k == CeilDiv(last.arg, block_size)
        i == last.ret \div block_size
    IN  /\ last.ret % block_size = 0
        /\ i < num_blocks
        /\ allocation_sizes = Reserved(last.table, i, k)
        /\ free_blocks = last.free - k

\* C5: a pool_alloc that returns no allocation leaves the table and
\* free_blocks as they were.
FailedAllocChangesNothing == AllocFailed => Unchanged

\* A pool_alloc that passed the capacity check and found no run.
FailedAllocChangesNothingWitness ==
  /\ AllocFailed
  /\ last.arg > 0
  /\ last.arg <= block_size * last.free
  /\ last.free < num_blocks

\* C6: on a fresh pool, for s1, s2 > 0 with s1 + s2 > block_size*num_blocks,
\* if pool_alloc(s1) succeeds then the following pool_alloc(s2) fails and
\* leaves the table and free_blocks as the first call left them.
SecondAllocBeyondCapacityFails ==
  [][ ( /\ ncalls = 1 /\ AllocOk /\ last.arg > 0
        /\ ncalls' = 2 /\ last'.op = "alloc" /\ last'.arg > 0
        /\ last.arg + last'.arg > block_size * num_blocks )
      => ( /\ last'.ret = NULL
           /\ allocation_sizes' = allocation_sizes
           /\ free_blocks' = free_blocks ) ]_vars

\* C7: pool_free changes nothing for an address that is not the head of a
\* live allocation: a misaligned offset, an index >= num_blocks, an entry 0
\* or an entry -1.
FreeOfNonHeadChangesNothing ==
  (last.op = "free" /\ ~LiveHead(last.table, last.arg)) => Unchanged

\* A pool_free on the address of a continuation block.
FreeOfNonHeadChangesNothingWitness ==
  /\ last.op = "free"
  /\ last.arg # NULL
  /\ last.arg % block_size = 0
  /\ last.arg \div block_size < num_blocks
  /\ last.table[last.arg \div block_size] = -1

\* A pool_free on a misaligned address inside a block whose head is live.
FreeOfMisalignedWitness ==
  /\ last.op = "free"
  /\ last.arg # NULL
  /\ last.arg % block_size # 0
  /\ last.arg \div block_size < num_blocks
  /\ last.table[last.arg \div block_size] > 0

\* C8: calling pool_free twice in a row with the same address leaves the
\* table and free_blocks after the second call as they were after the first.
DoubleFreeIdempotent == (last.op = "free" /\ repeated) => Unchanged

\* The second of two pool_free calls on an address whose run the first released.
DoubleFreeIdempotentWitness ==
  /\ last.op = "free"
  /\ repeated
  /\ prevReleased > 0
  /\ free_blocks < num_blocks

\* C9: pool_free on the address of a head N at index i zeroes exactly the
\* entries i .. i+N-1, adds N to free_blocks and changes no other entry.
FreeReleasesExactlyRun ==
  (last.op = "free" /\ LiveHead(last.table, last.arg)) =>
    LET i == last.arg \div block_size
        n == last.table[i]
    IN  /\ allocation_sizes = Zeroed(last.table, i, n)
        /\ free_blocks = last.free + n

\* A pool_free that released a run of two blocks between two live allocations.
FreeReleasesExactlyRunWitness ==
  /\ last.op = "free"
  /\ LiveHead(last.table, last.arg)
  /\ last.table[last.arg \div block_size] = 2
  /\ last.arg \div block_size = 1
  /\ allocation_sizes[0] = 1
  /\ num_blocks = 4
  /\ allocation_sizes[3] = 1

\* C10: pool_init, then pool_alloc(size) for any size, then pool_free of the
\* returned address: free_blocks is num_blocks and every entry is 0.
InitAllocFreeRestores ==
  [][ ( /\ ncalls = 1 /\ last.op = "alloc"
        /\ ncalls' = 2 /\ last'.op = "free" /\ last'.arg = last.ret )
      => ( /\ free_blocks' = num_blocks
           /\ AllFree(allocation_sizes') ) ]_vars

\* The pool after pool_init, a pool_alloc that reserved blocks at offset 0 and
\* the pool_free of that address.
InitAllocFreeRestoresWitness ==
  /\ ncalls = 2
  /\ last.op = "free"
  /\ last.arg = 0
  /\ last.table[0] > 1
  /\ free_blocks = num_blocks
  /\ AllFree(allocation_sizes)

\* C11: with a live run between two released runs, a pool_alloc whose block
\* count is at most free_blocks but larger than every contiguous run of free
\* blocks passes the capacity check, returns no allocation and changes nothing.
FragmentedAllocFails ==
  ( /\ last.op = "alloc" /\ last.arg > 0
    /\ CeilDiv(last.arg, block_size) <= last.free
    /\ Fits(last.table, num_blocks, CeilDiv(last.arg, block_size)) = {} )
  => ( /\ last.arg <= block_size * last.free
       /\ last.ret = NULL
       /\ Unchanged )

\* The failed request on a table left by allocating A, B and C and releasing
\* A and C: free blocks first and last, one live run in between.
FragmentedAllocFailsWitness ==
  /\ AllocFailed
  /\ last.arg > 0
  /\ CeilDiv(last.arg, block_size) <= last.free
  /\ last.table[0] = 0
  /\ last.table[num_blocks - 1] = 0
  /\ Cardinality({h \in Indices : last.table[h] > 0}) = 1
  /\ Unchanged

\* C15: an entry goes 0 -> -1 only in a pool_alloc step that sets a head h < i
\* with i < h + N; 0 -> positive only in a pool_alloc step; non-zero -> 0 only
\* in a pool_free step on the address of the head of the run holding it; no
\* other change of an entry occurs.
BlockTransitions ==
  [][ \A i \in Indices :
        LET a == allocation_sizes[i]
            b == allocation_sizes'[i]
        IN  a # b =>
              \/ /\ a = 0 /\ b = -1
                 /\ last'.op = "alloc"
                 /\ \E h \in Indices :
                      /\ h < i
                      /\ allocation_sizes[h] = 0
                      /\ allocation_sizes'[h] > 0
                      /\ i < h + allocation_sizes'[h]
              \/ /\ a = 0 /\ b > 0
                 /\ last'.op = "alloc"
              \/ /\ a # 0 /\ b = 0
                 /\ last'.op = "free"
                 /\ \E h \in HeadsOver(allocation_sizes, i) :
                      last'.arg = h * block_size ]_vars

\* A pool_free released a run of two blocks that a pool_alloc had marked,
\* with a live allocation right after it.
BlockTransitionsWitness ==
  /\ last.op = "free"
  /\ LiveHead(last.table, last.arg)
  /\ last.table[last.arg \div block_size] = 2
  /\ last.arg \div block_size + 2 < num_blocks
  /\ allocation_sizes[last.arg \div block_size + 2] > 0
  /\ allocation_sizes[last.arg \div block_size + 1] = 0

\* C17: for every size >= 1 that passes the capacity check, the block count
\* of line 62, computed in size_t, is ceil(size/block_size); a successful
\* pool_alloc reserves at least that many blocks and never 0.
BlocksNeededIsCeil ==
  ( /\ last.op = "alloc" /\ last.arg >= 1
    /\ last.arg <= block_size * last.free )
  => ( /\ NumBlocksNeeded(last.arg, block_size) = CeilDiv(last.arg, block_size)
       /\ AllocOk => last.free - free_blocks >= CeilDiv(last.arg, block_size) )

\* Vocabulary of the caller's records.

LiveAt(ptr) == {a \in live : a.off = ptr}

Bytes(a) == a.off .. (a.off + a.size - 1)

Run(a) == (a.off \div block_size) .. (a.off \div block_size + a.blocks - 1)

LiveAllocationsDisjoint ==
  /\ \A a \in live : a.off + a.size <= block_size * num_blocks
  /\ \A a, b \in live :
       a # b => /\ Bytes(a) \cap Bytes(b) = {}
                /\ Run(a) \cap Run(b) = {}

\* C19: in any reachable state, a successful pool_alloc followed at once by
\* pool_free of the returned address restores the table and free_blocks to
\* what they were before the pool_alloc.
AllocFreeRoundTrip ==
  [][ (AllocOk /\ last'.op = "free" /\ last'.arg = last.ret)
      => ( /\ allocation_sizes' = last.table
           /\ free_blocks' = last.free ) ]_vars

\* The pool_free of the address the pool_alloc before it returned, on a pool
\* that holds another live allocation.
AllocFreeRoundTripWitness ==
  /\ last.op = "free"
  /\ freesPrevRet
  /\ last.arg # NULL
  /\ free_blocks > last.free
  /\ ~AllFree(allocation_sizes)

\* C20: pool_free on the address of a live allocation is accepted and
\* releases exactly the blocks pool_alloc reserved for it, and the bounds
\* check of line 126 never rejects a head.
LiveFreeAccepted ==
  [][ /\ \A a \in live :
           (last'.op = "free" /\ last'.arg = a.off)
           => ( /\ LiveHead(allocation_sizes, a.off)
                /\ free_blocks' = free_blocks + a.blocks
                /\ allocation_sizes' =
                     Zeroed(allocation_sizes, a.off \div block_size, a.blocks) )
      /\ \A i \in Indices :
           allocation_sizes[i] > 0 => i + allocation_sizes[i] <= num_blocks ]_vars

\* C12: pool_init returns a pool exactly when memory is present, block_size
\* and num_blocks are positive and both mallocs succeed; the pool it returns
\* has a table of num_blocks entries, all 0, and free_blocks = num_blocks;
\* when it returns no pool, neither the control structure nor the table
\* remains allocated.
PoolInitContract ==
  last.op = "init" =>
    LET a == last.arg
        good == a.memory /\ a.bs > 0 /\ a.nb > 0 /\ a.ctlOk /\ a.tableOk
    IN  /\ (last.ret # NULL) <=> good
        /\ good => ( /\ pool = "valid"
                     /\ block_size = a.bs
                     /\ num_blocks = a.nb
                     /\ DOMAIN allocation_sizes = 0..(a.nb - 1)
                     /\ \A i \in DOMAIN allocation_sizes : allocation_sizes[i] = 0
                     /\ free_blocks = a.nb
                     /\ heap.ctl = "held"
                     /\ heap.table = "held"
                     /\ ~heapFault )
        /\ ~good => ( /\ pool = "null"
                      /\ heap.ctl = "free"
                      /\ heap.table = "free"
                      /\ ~heapFault )

\* C13: no call releases the caller's memory region or stores into it;
\* pool_destroy of a pool frees the table and the control structure, each
\* once and nothing else; pool_destroy of no pool changes nothing.
PoolOwnsOnlyMetadata ==
  [][ /\ heap'.memory = "held"
      /\ "memory" \notin written'
      /\ (last'.op = "destroy" /\ pool = "valid")
         => ( /\ heap.table = "held"
              /\ heap.ctl = "held"
              /\ heap' = [heap EXCEPT !.table = "free", !.ctl = "free"]
              /\ ~heapFault' )
      /\ (last'.op = "destroy" /\ pool = "null")
         => UNCHANGED <<heap, heapFault, written, pool, allocation_sizes,
                        free_blocks>> ]_vars

\* A pool of the shape of main's, as pool_init has just returned it.
FreshDemoPool ==
  /\ last.op = "init"
  /\ last.ret # NULL
  /\ block_size = 1
  /\ num_blocks = 320

\* C14: on a pool just created with block_size 1 and num_blocks 320,
\* pool_alloc(64) returns offset 0, reserves exactly the blocks [0,64) and
\* leaves free_blocks = 256; pool_free of that address then makes all 320
\* blocks free again; and pool_alloc(96) on such a pool returns offset 0 and
\* reserves exactly the blocks [0,96).
DemoScenario ==
  [][ /\ (FreshDemoPool /\ last'.op = "alloc" /\ last'.arg = 64)
         => ( /\ last'.ret = 0
              /\ allocation_sizes' = Reserved(ZeroTable(320), 0, 64)
              /\ free_blocks' = 256 )
      /\ ( /\ AllocOk
           /\ last.arg = 64
           /\ last.table = ZeroTable(320)
           /\ last'.op = "free"
           /\ last'.arg = last.ret )
         => ( /\ allocation_sizes' = ZeroTable(320)
              /\ free_blocks' = 320 )
      /\ (FreshDemoPool /\ last'.op = "alloc" /\ last'.arg = 96)
         => ( /\ last'.ret = 0
              /\ allocation_sizes' = Reserved(ZeroTable(320), 0, 96)
              /\ free_blocks' = 224 ) ]_vars

\* main's first pool after its pool_alloc(64) and its pool_free.
DemoScenarioWitness ==
  /\ last.op = "free"
  /\ last.arg = 0
  /\ ncalls = 2
  /\ last.table = Reserved(ZeroTable(320), 0, 64)
  /\ last.free = 256
  /\ allocation_sizes = ZeroTable(320)
  /\ free_blocks = 320

\* main's second pool after its pool_alloc(96).
DemoSecondWitness ==
  /\ AllocOk
  /\ last.arg = 96
  /\ last.ret = 0
  /\ ncalls = 1
  /\ allocation_sizes = Reserved(ZeroTable(320), 0, 96)

====
